---------------------------- MODULE Spec2Model ----------------------------
(***************************************************************************)
(* House Rental API (src/main.py, src/schemas.py).                         *)
(*                                                                         *)
(* The shared state is the three collections of the document store (user,  *)
(* property, contactmessage) and the upload directory.  Every handler is   *)
(* a sequence of round trips to that shared state; each round trip         *)
(* (find_one, insert_one, update_one, delete_one, a file write) is one     *)
(* atomic step, and steps of different requests interleave freely: the     *)
(* handlers take no lock and open no transaction.                          *)
(*                                                                         *)
(* Strings that the code inspects or concatenates (identifiers, file       *)
(* names) are sequences of one-character strings; opaque strings (title,   *)
(* city, ...) are TLA+ strings.  Python's None is the empty sequence for   *)
(* sequence-valued fields.                                                 *)
(***************************************************************************)
EXTENDS Integers, Sequences, FiniteSets, TLC

VARIABLES
    property,        \* db["property"]: documents in natural (insertion) order
    contactmessage,  \* db["contactmessage"]
    uploads,         \* files of UPLOAD_DIR: set of <<filename, bytes>>
    nextOid,         \* number of identifiers the store has generated so far
    req,             \* property/contact requests in flight: their locals
    resp,            \* the last response sent by a property/contact handler
    nreq,            \* number of property/contact requests received
    user,            \* db["user"]
    areq,            \* auth requests in flight: their locals
    aresp,           \* the last exchange of an auth handler: payload and response
    signedUp,        \* what the callers keep: each successful signup's payload and response
    nauth            \* number of auth requests received

vars == <<property, contactmessage, uploads, nextOid, req, resp, nreq,
         user, areq, aresp, signedUp, nauth>>
propVars == <<property, contactmessage, uploads, nextOid, req, resp, nreq>>
authVars == <<user, areq, aresp, signedUp, nauth>>

----------------------------------------------------------------------------
(* Bounds of the model *)

MaxRequests == 3
MaxAuthRequests == 3

\* Workers serving requests concurrently.
Reqs == {1, 2}

None == <<>>

----------------------------------------------------------------------------
(* bson.ObjectId: 12 bytes, written as 24 hexadecimal characters *)

OidLen == 24

LowerHex == <<"0", "1", "2", "3", "4", "5", "6", "7",
              "8", "9", "a", "b", "c", "d", "e", "f">>
UpperHex == <<"0", "1", "2", "3", "4", "5", "6", "7",
              "8", "9", "A", "B", "C", "D", "E", "F">>

IsHexChar(c) == \E i \in 1..16 : LowerHex[i] = c \/ UpperHex[i] = c

HexValue(c) == (CHOOSE i \in 1..16 : LowerHex[i] = c \/ UpperHex[i] = c) - 1

\* ObjectId(s) raises InvalidId unless s is 24 hexadecimal characters.
IsValidOid(s) == Len(s) = OidLen /\ \A i \in 1..Len(s) : IsHexChar(s[i])

\* ObjectId(s) for a valid s; an ObjectId is represented by str(oid), its
\* lower-case hexadecimal form, so that "AB.." and "ab.." are the same id.
ObjectId(s) == [i \in 1..Len(s) |-> LowerHex[HexValue(s[i]) + 1]]

RECURSIVE Pow16(_)
Pow16(k) == IF k = 0 THEN 1 ELSE 16 * Pow16(k - 1)

\* The n-th identifier generated by the store (insert_one's inserted_id).
NewOid(n) ==
    [i \in 1..OidLen |->
        IF OidLen - i < 6 THEN LowerHex[((n \div Pow16(OidLen - i)) % 16) + 1]
        ELSE "0"]

----------------------------------------------------------------------------
(* Collections *)

Min(S) == CHOOSE x \in S : \A y \in S : x <= y

\* query: {"_id": ObjectId(prop_id)} or, when ObjectId raises,
\* {"property_id": prop_id}
MakeQuery(prop_id) ==
    IF IsValidOid(prop_id)
    THEN [key |-> "_id", value |-> ObjectId(prop_id)]
    ELSE [key |-> "property_id", value |-> prop_id]

Matches(doc, query) == doc[query.key] = query.value

\* Index of the first document (natural order) matching the query, 0 if none.
FindIndex(coll, query) ==
    LET S == {i \in 1..Len(coll) : Matches(coll[i], query)}
    IN  IF S = {} THEN 0 ELSE Min(S)

RemoveAt(coll, i) == [j \in 1..(Len(coll) - 1) |-> IF j < i THEN coll[j] ELSE coll[j + 1]]

\* $set: the keys of updates overwrite the document's, the others stay.
SetFields(doc, updates) ==
    [k \in DOMAIN doc \cup DOMAIN updates |->
        IF k \in DOMAIN updates THEN updates[k] ELSE doc[k]]

\* open(filepath, "wb").write(bytes): creates or replaces the file.
WriteFile(files, name, data) ==
    {f \in files : f[1] # name} \cup {<<name, data>>}

\* f"{property_id}_{image.filename}"
UploadName(property_id, image) == property_id \o <<"_">> \o image.filename

\* f"/uploads/{filename}"
UploadUrl(filename) == <<"/uploads/">> \o filename

Idle == [pc |-> "idle"]


----------------------------------------------------------------------------
(* Inputs of the property and contact handlers *)

P1 == <<"p", "1">>
P2 == <<"p", "2">>
\* a property_id that is itself in ObjectId syntax
HexPid == [i \in 1..OidLen |-> "a"]

PropertyIds == {P1, P2, HexPid}

\* path parameter {prop_id}: a property_id or the string of a store identifier
PathIds == PropertyIds \cup {NewOid(1), NewOid(2)}
UpdatePaths == {P1, NewOid(2)}

\* image: UploadFile, two uploads under the same original filename
ImageA == [filename |-> <<"a">>, data |-> "bytes1"]
ImageB == [filename |-> <<"a">>, data |-> "bytes2"]
Images == {ImageA, ImageB}

\* rent_price: float = Form(...), area_sqft: int = Form(...)
ValidNumeric == [rent_price |-> 1000, area_sqft |-> 500]
Numerics == {ValidNumeric, [rent_price |-> -1, area_sqft |-> -1]}

UpdatableFields == {"title", "city", "locality", "rent_price", "area_sqft",
                    "furnishing", "contact_details"}

NewValues == [title |-> "t2", city |-> "c2", locality |-> "l2",
              rent_price |-> 5000, area_sqft |-> 0,
              furnishing |-> "furnished", contact_details |-> "k2"]

\* An Optional form parameter: Absent is Python's None, a supplied value v is {v}.
Absent == {}

\* The combinations of fields a caller supplies.
SuppliedSets ==
    {{}, UpdatableFields, {"rent_price"}, {"area_sqft"}, {"title"},
     {"rent_price", "area_sqft"}, {"title", "city", "locality"},
     {"furnishing", "contact_details"}}
\* The form parameters of an update request, lines 160-166.
UpdateForms ==
    {[k \in UpdatableFields |-> IF k \in S THEN {NewValues[k]} ELSE Absent]
     : S \in SuppliedSets}
EmptyForm == [k \in UpdatableFields |-> Absent]
RentOnlyForm == [EmptyForm EXCEPT !["rent_price"] = {5000}]

----------------------------------------------------------------------------
(* Property CRUD *)

\* A new request is taken by the first free worker.
CanReceive(r) ==
    /\ nreq < MaxRequests
    /\ req[r] = Idle
    /\ \A q \in Reqs : q < r => req[q] # Idle

\* The handler returns (or raises HTTPException): the worker is free again.
Respond(r, op, status, body) ==
    /\ req' = [req EXCEPT ![r] = Idle]
    /\ resp' = [op |-> op, status |-> status, body |-> body]

\* GET /api/properties/{prop_id}: the response of get_property on a collection
GetProperty(coll, prop_id) ==
    LET i == FindIndex(coll, MakeQuery(prop_id))
    IN  IF i = 0 THEN [status |-> 404, body |-> "Property not found"]
        ELSE [status |-> 200, body |-> coll[i]]

get_property(r, prop_id) ==
    /\ CanReceive(r)
    /\ nreq' = nreq + 1
    /\ LET res == GetProperty(property, prop_id)
       IN  Respond(r, "get", res.status, res.body)
    /\ UNCHANGED <<property, contactmessage, uploads, nextOid, authVars>>

\* POST /api/properties, lines 127-147: the image is saved, the document built
create_property_save(r, property_id, num, image) ==
    /\ CanReceive(r)
    /\ nreq' = nreq + 1
    /\ LET filename == UploadName(property_id, image)
           image_url == IF image # None THEN UploadUrl(filename) ELSE None
           doc == [property_id |-> property_id,
                   title |-> "t1",
                   city |-> "c1",
                   locality |-> "l1",
                   rent_price |-> num.rent_price,
                   area_sqft |-> num.area_sqft,
                   furnishing |-> "semi",
                   contact_details |-> "k1",
                   image_url |-> image_url,
                   owner_id |-> "o1"]
       IN  /\ uploads' = IF image # None
                         THEN WriteFile(uploads, filename, image.data)
                         ELSE uploads
           /\ req' = [req EXCEPT ![r] = [pc |-> "check", op |-> "create", doc |-> doc]]
    /\ UNCHANGED <<property, contactmessage, nextOid, resp, authVars>>

\* Mutant: the document is inserted before the uniqueness check answers.
create_property_check_late(r) ==
    /\ req[r] # Idle
    /\ req[r].pc = "check"
    /\ req[r].op = "create"
    /\ IF \E i \in 1..Len(property) : property[i].property_id = req[r].doc.property_id
       THEN /\ Respond(r, "create", 400, "property_id must be unique")
            /\ property' = Append(property,
                                  SetFields(req[r].doc, [_id |-> NewOid(nextOid + 1)]))
            /\ nextOid' = nextOid + 1
       ELSE /\ req' = [req EXCEPT ![r].pc = "insert"]
            /\ UNCHANGED <<resp, property, nextOid>>
    /\ UNCHANGED <<contactmessage, uploads, nreq, authVars>>

\* lines 149-151: the uniqueness check
PropertyIdTaken(coll, doc) ==
    FindIndex(coll, [key |-> "property_id", value |-> doc.property_id]) # 0

create_property_check(r) ==
    /\ req[r] # Idle
    /\ req[r].pc = "check"
    /\ req[r].op = "create"
    /\ IF PropertyIdTaken(property, req[r].doc)
       THEN Respond(r, "create", 400, "property_id must be unique")
       ELSE req' = [req EXCEPT ![r].pc = "insert"] /\ resp' = resp
    /\ UNCHANGED <<property, contactmessage, uploads, nextOid, nreq, authVars>>

\* lines 153-155: insert_one and the response
create_property_insert(r) ==
    /\ req[r] # Idle
    /\ req[r].pc = "insert"
    /\ req[r].op = "create"
    /\ LET stored == SetFields(req[r].doc, [_id |-> NewOid(nextOid + 1)])
       IN  /\ property' = Append(property, stored)
           /\ Respond(r, "create", 200, stored)
    /\ nextOid' = nextOid + 1
    /\ UNCHANGED <<contactmessage, uploads, nreq, authVars>>

\* Mutant: "if value:" in place of "if value is not None" drops a supplied 0.
CollectUpdatesTruthy(form) ==
    [k \in {f \in DOMAIN form :
                /\ form[f] # Absent
                /\ ~(f \in {"rent_price", "area_sqft"} /\ form[f] = {0})}
        |-> CHOOSE v \in form[k] : TRUE]

\* lines 178-189: updates holds the parameters that are not None
CollectUpdates(form) ==
    [k \in {f \in DOMAIN form : form[f] # Absent} |-> CHOOSE v \in form[k] : TRUE]

\* Mutant: the "if not updates" return is missing.
update_property_find_no_return(r, prop_id, form, image) ==
    /\ CanReceive(r)
    /\ nreq' = nreq + 1
    /\ LET query == MakeQuery(prop_id)
           i == FindIndex(property, query)
       IN  IF i = 0
           THEN Respond(r, "update", 404, "Property not found")
           ELSE /\ req' = [req EXCEPT ![r] =
                         [pc |-> IF image # None THEN "upload" ELSE "update_one",
                          op |-> "update", query |-> query,
                          form |-> form, updates |-> CollectUpdates(form),
                          image |-> image,
                          filename |-> IF image # None
                                       THEN UploadName(property[i].property_id, image)
                                       ELSE None]]
                /\ resp' = resp
    /\ UNCHANGED <<property, contactmessage, uploads, nextOid, authVars>>

\* PUT /api/properties/{prop_id}, lines 169-189 and 198-199: the target is
\* resolved and the supplied fields collected
update_property_find(r, prop_id, form, image) ==
    /\ CanReceive(r)
    /\ nreq' = nreq + 1
    /\ LET query == MakeQuery(prop_id)
           i == FindIndex(property, query)
       IN  IF i = 0
           THEN Respond(r, "update", 404, "Property not found")
           ELSE IF image # None
           THEN /\ req' = [req EXCEPT ![r] =
                         [pc |-> "upload", op |-> "update", query |-> query,
                          form |-> form, updates |-> CollectUpdates(form),
                          image |-> image,
                          filename |-> UploadName(property[i].property_id, image)]]
                /\ resp' = resp
           ELSE IF DOMAIN CollectUpdates(form) = {}
           THEN Respond(r, "update", 200, [message |-> "No changes"])
           ELSE /\ req' = [req EXCEPT ![r] =
                         [pc |-> "update_one", op |-> "update", query |-> query,
                          form |-> form, updates |-> CollectUpdates(form),
                          image |-> None]]
                /\ resp' = resp
    /\ UNCHANGED <<property, contactmessage, uploads, nextOid, authVars>>

\* lines 191-196: the new image is saved and image_url joins the updates
update_property_upload(r) ==
    /\ req[r] # Idle
    /\ req[r].pc = "upload"
    /\ uploads' = WriteFile(uploads, req[r].filename, req[r].image.data)
    /\ req' = [req EXCEPT ![r] =
                 [pc |-> "update_one", op |-> "update", query |-> req[r].query,
                  form |-> req[r].form, image |-> req[r].image,
                  updates |-> SetFields(req[r].updates,
                                        [image_url |-> UploadUrl(req[r].filename)])]]
    /\ UNCHANGED <<property, contactmessage, nextOid, resp, nreq, authVars>>

\* update_one(query, {"$set": updates}) on a collection
UpdateOne(coll, query, updates) ==
    LET i == FindIndex(coll, query)
    IN  IF i = 0 THEN coll
        ELSE [coll EXCEPT ![i] = SetFields(coll[i], updates)]

\* line 201
update_property_update_one(r) ==
    /\ req[r] # Idle
    /\ req[r].pc = "update_one"
    /\ property' = UpdateOne(property, req[r].query, req[r].updates)
    /\ req' = [req EXCEPT ![r].pc = "refetch"]
    /\ UNCHANGED <<contactmessage, uploads, nextOid, resp, nreq, authVars>>

\* lines 202-204: the document is read back; subscripting None raises
update_property_refetch(r) ==
    /\ req[r] # Idle
    /\ req[r].pc = "refetch"
    /\ LET i == FindIndex(property, req[r].query)
       IN  IF i = 0 THEN Respond(r, "update", 500, "Internal Server Error")
           ELSE Respond(r, "update", 200, property[i])
    /\ UNCHANGED <<property, contactmessage, uploads, nextOid, nreq, authVars>>

\* DELETE /api/properties/{prop_id}: delete_one is a single round trip
delete_property(r, prop_id) ==
    /\ CanReceive(r)
    /\ nreq' = nreq + 1
    /\ LET i == FindIndex(property, MakeQuery(prop_id))
       IN  IF i = 0
           THEN /\ Respond(r, "delete", 404, "Property not found")
                /\ property' = property
           ELSE /\ Respond(r, "delete", 200, [deleted |-> TRUE])
                /\ property' = RemoveAt(property, i)
    /\ UNCHANGED <<contactmessage, uploads, nextOid, authVars>>


----------------------------------------------------------------------------
(* Contact owner *)

\* payload: ContactSchema (schemas.py), as validated by the framework
Payloads == {[property_id |-> p, sender_id |-> "s1", sender_name |-> "n1",
              sender_email |-> "e1", message |-> "hello", created_at |-> None]
             : p \in PropertyIds}

\* POST /api/properties/{prop_id}/contact, lines 220-227: the property named
\* by the path is looked up
contact_owner_find(r, prop_id, payload) ==
    /\ CanReceive(r)
    /\ nreq' = nreq + 1
    /\ IF FindIndex(property, MakeQuery(prop_id)) = 0
       THEN Respond(r, "contact", 404, "Property not found")
       ELSE /\ req' = [req EXCEPT ![r] = [pc |-> "insert", op |-> "contact",
                                          payload |-> payload]]
            /\ resp' = resp
    /\ UNCHANGED <<property, contactmessage, uploads, nextOid, authVars>>

\* lines 229-231: the payload is stored as it came
contact_owner_insert(r) ==
    /\ req[r] # Idle
    /\ req[r].pc = "insert"
    /\ req[r].op = "contact"
    /\ contactmessage' = Append(contactmessage, req[r].payload)
    /\ Respond(r, "contact", 200, [sent |-> TRUE])
    /\ UNCHANGED <<property, uploads, nextOid, nreq, authVars>>

----------------------------------------------------------------------------
(* Auth *)

Usernames == {"alice", "bob"}
Passwords == {"pw1", "pw2"}
Roles == {"customer", "landlord", "admin"}
Salts == {"salt1", "salt2"}

\* SignupRequest
SignupPayloads ==
    {[username |-> u, email |-> "e1", password |-> p, role |-> ro]
     : u \in Usernames, p \in Passwords, ro \in Roles}

\* LoginRequest
LoginPayloads == {[username |-> u, password |-> p] : u \in Usernames, p \in Passwords}

\* pwd_context.hash(password): bcrypt with a salt drawn by the library; the
\* digest is a function of salt and password that no other pair produces.
hash_password(password, salt) == [salt |-> salt, digest |-> <<salt, password>>]

\* pwd_context.verify(password, hashed): the password is hashed again with
\* the salt kept in the hash
Verify(password, hashed) == hash_password(password, hashed.salt).digest = hashed.digest

\* Mutant: the role is stored as given.
ResolveRoleAsGiven(role) == role

\* payload.role if payload.role in ("customer", "landlord") else "customer"
ResolveRole(role) == IF role \in {"customer", "landlord"} THEN role ELSE "customer"

\* Index of the first user document with the username, 0 if none.
FindUser(coll, username) ==
    LET S == {i \in 1..Len(coll) : coll[i].username = username}
    IN  IF S = {} THEN 0 ELSE Min(S)

CanReceiveAuth(r) ==
    /\ nauth < MaxAuthRequests
    /\ areq[r] = Idle
    /\ \A q \in Reqs : q < r => areq[q] # Idle

RespondAuth(r, op, payload, status, body) ==
    /\ areq' = [areq EXCEPT ![r] = Idle]
    /\ aresp' = [op |-> op, payload |-> payload, status |-> status, body |-> body]

\* Mutant: a refused signup still overwrites the stored role.
signup_find_upsert(r, payload) ==
    /\ CanReceiveAuth(r)
    /\ nauth' = nauth + 1
    /\ LET i == FindUser(user, payload.username)
       IN  IF i # 0
           THEN /\ RespondAuth(r, "signup", payload, 400, "Username already exists")
                /\ user' = [user EXCEPT ![i].role = ResolveRole(payload.role)]
           ELSE /\ areq' = [areq EXCEPT ![r] = [pc |-> "insert", payload |-> payload]]
                /\ UNCHANGED <<aresp, user>>
    /\ UNCHANGED <<signedUp, propVars>>

\* POST /api/auth/signup, lines 53-54: the username is looked up
signup_find(r, payload) ==
    /\ CanReceiveAuth(r)
    /\ nauth' = nauth + 1
    /\ IF FindUser(user, payload.username) # 0
       THEN RespondAuth(r, "signup", payload, 400, "Username already exists")
       ELSE /\ areq' = [areq EXCEPT ![r] = [pc |-> "insert", payload |-> payload]]
            /\ aresp' = aresp
    /\ UNCHANGED <<user, signedUp, propVars>>

\* lines 55-62: the document is built, inserted and acknowledged
signup_insert(r, salt) ==
    /\ areq[r] # Idle
    /\ areq[r].pc = "insert"
    /\ LET payload == areq[r].payload
           user_doc == [username |-> payload.username,
                        email |-> payload.email,
                        role |-> ResolveRole(payload.role),
                        hashed_password |-> hash_password(payload.password, salt)]
           uid == NewOid(nextOid + 1)
           body == [_id |-> uid, username |-> payload.username, role |-> user_doc.role]
       IN  /\ user' = Append(user, SetFields(user_doc, [_id |-> uid]))
           /\ RespondAuth(r, "signup", payload, 200, body)
           /\ signedUp' = signedUp \cup {[payload |-> payload, body |-> body]}
    /\ nextOid' = nextOid + 1
    /\ UNCHANGED <<nauth, property, contactmessage, uploads, req, resp, nreq>>

\* POST /api/auth/login: the response of login on a user collection
Login(coll, payload) ==
    LET i == FindUser(coll, payload.username)
    IN  IF i = 0 THEN [status |-> 400, body |-> "Invalid credentials"]
        ELSE IF ~Verify(payload.password, coll[i].hashed_password)
        THEN [status |-> 400, body |-> "Invalid credentials"]
        ELSE [status |-> 200,
              body |-> [_id |-> coll[i]._id, username |-> coll[i].username,
                        role |-> coll[i].role]]

login(r, payload) ==
    /\ CanReceiveAuth(r)
    /\ nauth' = nauth + 1
    /\ LET res == Login(user, payload)
       IN  RespondAuth(r, "login", payload, res.status, res.body)
    /\ UNCHANGED <<user, signedUp, propVars>>

----------------------------------------------------------------------------
(* Specification of the property and contact handlers *)

Init ==
    /\ property = <<>>
    /\ contactmessage = <<>>
    /\ uploads = {}
    /\ nextOid = 0
    /\ req = [r \in Reqs |-> Idle]
    /\ resp = None
    /\ nreq = 0
    /\ user = <<>>
    /\ areq = [r \in Reqs |-> Idle]
    /\ aresp = None
    /\ signedUp = {}
    /\ nauth = 0

\* Requests to the property CRUD handlers.
Next ==
    \E r \in Reqs :
        \/ \E p \in {P1, HexPid, NewOid(1)} : get_property(r, p)
        \/ \E p \in {P1, HexPid}, n \in Numerics, im \in Images \cup {None} :
               create_property_save(r, p, n, im)
        \/ create_property_check(r)
        \/ create_property_insert(r)
        \/ \E p \in {P1, NewOid(1)}, im \in {None, ImageB} :
               update_property_find(r, p, RentOnlyForm, im)
        \/ update_property_upload(r)
        \/ update_property_update_one(r)
        \/ update_property_refetch(r)
        \/ \E p \in {P1, HexPid, NewOid(1)} : delete_property(r, p)

Spec == Init /\ [][Next]_vars

\* Requests to update_property with every choice of supplied fields, next to
\* the creations and deletions they run among.
NextUpdate ==
    \E r \in Reqs :
        \/ \E p \in {P1, P2}, im \in {None, ImageA} :
               create_property_save(r, p, ValidNumeric, im)
        \/ create_property_check(r)
        \/ create_property_insert(r)
        \/ \E p \in UpdatePaths, f \in UpdateForms, im \in {None, ImageB} :
               update_property_find(r, p, f, im)
        \/ update_property_upload(r)
        \/ update_property_update_one(r)
        \/ update_property_refetch(r)
        \/ \E p \in {P1} : delete_property(r, p)

SpecUpdate == Init /\ [][NextUpdate]_vars

\* Requests to contact_owner, next to the creations and deletions of the
\* properties they name.
NextContact ==
    \E r \in Reqs :
        \/ \E p \in {P1, P2} : create_property_save(r, p, ValidNumeric, None)
        \/ create_property_check(r)
        \/ create_property_insert(r)
        \/ \E p \in PathIds : delete_property(r, p)
        \/ \E p \in PathIds, m \in Payloads : contact_owner_find(r, p, m)
        \/ contact_owner_insert(r)

SpecContact == Init /\ [][NextContact]_vars

\* Requests to the auth handlers.
NextAuth ==
    \E r \in Reqs :
        \/ \E m \in SignupPayloads : signup_find(r, m)
        \/ \E sa \in Salts : signup_insert(r, sa)
        \/ \E m \in LoginPayloads : login(r, m)

SpecAuth == Init /\ [][NextAuth]_vars

----------------------------------------------------------------------------
(* Properties of the property collection *)

SamePropertyId(i) == {j \in 1..Len(property) : property[j].property_id = property[i].property_id}

\* C1: no two documents of the property collection have the same
\* property_id, whatever create, update and delete requests ran and however
\* their steps interleaved.
PropertyIdUnique ==
    \A i \in 1..Len(property) : SamePropertyId(i) = {i}

\* C2: a created property (whose property_id no other document shares) is
\* returned by get_property both for its store identifier and for its
\* property_id, and the two responses are the same document.
GetByEitherKey ==
    \A i \in 1..Len(property) :
        SamePropertyId(i) = {i} =>
            /\ GetProperty(property, property[i]._id) = [status |-> 200, body |-> property[i]]
            /\ GetProperty(property, property[i].property_id)
                   = [status |-> 200, body |-> property[i]]

\* C3: when the uniqueness check of create_property runs while a document
\* with the request's property_id is in the collection, the request is
\* answered 400 and the collection is left as it was.
CreateConflictLeavesCollection ==
    [][\A r \in Reqs :
          (/\ req[r] # Idle
           /\ req[r].op = "create"
           /\ req[r].pc = "check"
           /\ req'[r] # req[r]
           /\ \E i \in 1..Len(property) :
                  property[i].property_id = req[r].doc.property_id)
          => /\ resp' = [op |-> "create", status |-> 400,
                         body |-> "property_id must be unique"]
             /\ req'[r] = Idle
             /\ property' = property]_vars

\* C3 witness: a create was refused and the collection holds a document.
CreateConflictSeen ==
    /\ resp # None
    /\ resp.op = "create"
    /\ resp.status = 400
    /\ Len(property) >= 1

\* C4: every stored property has rent_price >= 0 and area_sqft >= 0.
NumericFieldsNonNegative ==
    \A i \in 1..Len(property) :
        property[i].rent_price >= 0 /\ property[i].area_sqft >= 0

\* C10: a create request that is refused with Conflict has written no file:
\* its image_url local, set exactly when the handler saved the image
\* (lines 128-134), is None when the 400 is raised.
CreateConflictWritesNoFile ==
    [][\A r \in Reqs :
          (/\ req[r] # Idle
           /\ req[r].op = "create"
           /\ req[r].pc = "check"
           /\ req'[r] = Idle
           /\ resp'.status = 400)
          => req[r].doc.image_url = None]_vars

----------------------------------------------------------------------------
(* Properties of contact_owner *)

\* C5: whenever a document is inserted into contactmessage, its property_id
\* is the property_id or the store identifier of a document that is in the
\* property collection at that moment.
ContactReferencesProperty ==
    [][Len(contactmessage') > Len(contactmessage) =>
          LET m == contactmessage'[Len(contactmessage')]
          IN  \E i \in 1..Len(property) :
                  \/ property[i].property_id = m.property_id
                  \/ property[i]._id = m.property_id]_vars

----------------------------------------------------------------------------
(* Properties of update_property *)

Supplied(form, k) == k \in DOMAIN form /\ form[k] # Absent

\* C6: the write of an update request that carries no image sets every
\* supplied field of the target to the supplied value and leaves its other
\* fields, the other documents and the uploads as they were; the other
\* steps of the request write nothing.
PartialUpdateFrame ==
    [][\A r \in Reqs :
          /\ (/\ req[r] # Idle
              /\ req[r].op = "update"
              /\ req[r].pc = "update_one"
              /\ req[r].image = None
              /\ req'[r] # req[r])
             => LET i == FindIndex(property, req[r].query)
                    form == req[r].form
                IN  /\ uploads' = uploads
                    /\ Len(property') = Len(property)
                    /\ \A j \in 1..Len(property) : j # i => property'[j] = property[j]
                    /\ i # 0 =>
                         /\ DOMAIN property'[i] = DOMAIN property[i]
                         /\ \A k \in DOMAIN property[i] :
                                property'[i][k] =
                                    IF Supplied(form, k)
                                    THEN CHOOSE v \in form[k] : TRUE
                                    ELSE property[i][k]
          /\ (/\ req'[r] # req[r]
              /\ \/ req[r] # Idle /\ req[r].op = "update" /\ req[r].pc = "refetch"
                 \/ req[r] = Idle /\ req'[r] # Idle /\ req'[r].op = "update"
                 \/ req[r] = Idle /\ req'[r] = Idle /\ resp'.op = "update")
             => property' = property /\ uploads' = uploads]_vars

\* C6 witness: an update that supplied only rent_price was applied to one of
\* two documents and answered with the document, its title still the old one.
PartialUpdateSeen ==
    /\ resp # None
    /\ resp.op = "update"
    /\ resp.status = 200
    /\ "rent_price" \in DOMAIN resp.body
    /\ resp.body.rent_price = 5000
    /\ resp.body.title = "t1"
    /\ resp.body.area_sqft = 500
    /\ resp.body.image_url = None
    /\ Len(property) = 2

\* C7: an update request with no field and no image that names an existing
\* property is answered {message: "No changes"} and writes neither the
\* property collection nor the uploads.
EmptyUpdateIsNoOp ==
    [][\A r \in Reqs, p \in UpdatePaths :
          (/\ nreq' = nreq + 1
           /\ FindIndex(property, MakeQuery(p)) # 0
           /\ update_property_find(r, p, EmptyForm, None))
          => /\ resp' = [op |-> "update", status |-> 200,
                         body |-> [message |-> "No changes"]]
             /\ req'[r] = Idle
             /\ property' = property
             /\ uploads' = uploads]_vars

\* C7 witness: the no-op message was sent while a property is stored.
NoChangesSeen ==
    /\ resp # None
    /\ resp.op = "update"
    /\ resp.status = 200
    /\ resp.body = [message |-> "No changes"]
    /\ Len(property) >= 1

----------------------------------------------------------------------------
(* Properties of signup and login *)

UsernameOnce(username) ==
    Cardinality({i \in 1..Len(user) : user[i].username = username}) = 1

\* C8: for every signup that succeeded, and whose username no other
\* successful signup shares, a login with its username and password is
\* answered 200 with the identifier, username and role that the signup
\* returned, the role being the given one if it is customer or landlord and
\* customer otherwise.
SignupThenLogin ==
    \A s \in signedUp :
        UsernameOnce(s.payload.username) =>
            /\ Login(user, [username |-> s.payload.username,
                            password |-> s.payload.password])
                   = [status |-> 200, body |-> s.body]
            /\ s.body.username = s.payload.username
            /\ s.body.role = IF s.payload.role \in {"customer", "landlord"}
                             THEN s.payload.role ELSE "customer"

\* C8 witness: the first user, signed up with an unrecognised role, logged
\* in after another user had signed up.
LoginAfterSignupSeen ==
    /\ aresp # None
    /\ aresp.op = "login"
    /\ aresp.status = 200
    /\ Len(user) = 2
    /\ user[1].username # user[2].username
    /\ \E s \in signedUp :
           /\ s.payload.role = "admin"
           /\ s.body._id = user[1]._id
           /\ s.payload.username = aresp.payload.username
           /\ s.payload.password = aresp.payload.password
           /\ aresp.body = s.body

\* C9 as stated: a signup whose username is in the user collection is
\* answered 400, inserts nothing, and the password it gave does not log in.
SignupConflictPasswordRejected ==
    [][\A r \in Reqs, m \in SignupPayloads :
          (nauth' = nauth + 1 /\ FindUser(user, m.username) # 0 /\ signup_find(r, m))
          => /\ aresp'.status = 400
             /\ user' = user
             /\ Login(user', [username |-> m.username,
                              password |-> m.password]).status = 400]_vars

\* C9 as amended: a signup whose username is in the user collection is
\* answered 400 and leaves the user collection as it was, so the first
\* signup's credentials still log in, and the password of the refused
\* request logs in exactly when it verifies against the stored hash.
SignupConflictKeepsUser ==
    [][\A r \in Reqs, m \in SignupPayloads :
          (nauth' = nauth + 1 /\ FindUser(user, m.username) # 0 /\ signup_find(r, m))
          => /\ aresp' = [op |-> "signup", payload |-> m, status |-> 400,
                          body |-> "Username already exists"]
             /\ areq'[r] = Idle
             /\ user' = user
             /\ \A s \in signedUp :
                    (s.payload.username = m.username /\ UsernameOnce(m.username))
                    => Login(user', [username |-> m.username,
                                     password |-> s.payload.password])
                           = [status |-> 200, body |-> s.body]
             /\ LET stored == user[FindUser(user, m.username)].hashed_password
                IN  (Login(user', [username |-> m.username,
                                   password |-> m.password]).status = 200)
                        <=> (stored.digest = <<stored.salt, m.password>>)]_vars

\* C9 witness: a signup was refused for a taken username although it gave
\* another password and another role than the stored user's.
SignupConflictSeen ==
    /\ aresp # None
    /\ aresp.op = "signup"
    /\ aresp.status = 400
    /\ Len(user) = 1
    /\ user[1].username = aresp.payload.username
    /\ user[1].role # ResolveRole(aresp.payload.role)
    /\ Login(user, [username |-> aresp.payload.username,
                    password |-> aresp.payload.password]).status = 400

=============================================================================
